---- MODULE Spec2Model ----
(***************************************************************************)
(* Model of generate-pages.py: fetch the asset listing of the latest       *)
(* release, group the wheels by package name, mirror and relabel the       *)
(* pydantic linux_aarch64 wheels, and write one index page per package     *)
(* plus the main index page under docs/.                                   *)
(*                                                                         *)
(* Strings are sequences of character codes, so that split, replace,       *)
(* lower, find, endswith and sorted are computed as Python computes them.  *)
(***************************************************************************)
EXTENDS Integers, Sequences, FiniteSets, TLC

(***************************************************************************)
(* Bounds of the model.                                                    *)
(***************************************************************************)
\* Largest number of assets in the release the listing endpoint describes.
MaxAssets == 2
\* An operation (makedirs, the writing of a page, a download) can fail only
\* while fewer than MaxFaults environment calls have failed; the clean-up of
\* a failed download can fail with it.  Listing failures are not counted.
MaxFaults == 1

(***************************************************************************)
(* String literals of the program.                                         *)
(***************************************************************************)
\* 'docs'
DOCS_DIR == <<100,111,99,115>>
\* 'index.html'
INDEX_HTML == <<105,110,100,101,120,46,104,116,109,108>>
\* '.whl'
WHL_SUFFIX == <<46,119,104,108>>
\* '-'
HYPHEN == <<45>>
\* '_'
UNDERSCORE == <<95>>
\* 'linux_aarch64'
LINUX_TAG == <<108,105,110,117,120,95,97,97,114,99,104,54,52>>
\* 'android_24_aarch64'
ANDROID_TAG == <<97,110,100,114,111,105,100,95,50,52,95,97,97,114,99,104,54,52>>
\* 'pydantic'
PYDANTIC == <<112,121,100,97,110,116,105,99>>
\* '#sha256='
SHA_MARK == <<35,115,104,97,50,53,54,61>>
\* '#'
HASH_CHAR == <<35>>
\* ' data-requires-python="" data-yanked="false" '
HASH_ATTRS == <<32,100,97,116,97,45,114,101,113,117,105,114,101,115,45,112,121,116,104,111,110,61,34,34,32,100,97,116,97,45,121,97,110,107,101,100,61,34,102,97,108,115,101,34,32>>
\* '../'
PARENT_PREFIX == <<46,46,47>>
\* '/'
SLASH == <<47>>

(***************************************************************************)
(* Python string operations.                                               *)
(***************************************************************************)
\* s[i-1:].startswith(sub), with i counted from 1
MatchAt(s, sub, i) ==
    /\ i + Len(sub) - 1 <= Len(s)
    /\ \A k \in 1..Len(sub) : s[i + k - 1] = sub[k]

\* sub in s
Contains(s, sub) == \E i \in 1..(Len(s) + 1) : MatchAt(s, sub, i)

\* s.find(sub) + 1: the position of the first occurrence, 0 when there is none
Find(s, sub) ==
    IF Contains(s, sub)
    THEN CHOOSE i \in 1..(Len(s) + 1) :
            MatchAt(s, sub, i) /\ \A j \in 1..(i - 1) : ~MatchAt(s, sub, j)
    ELSE 0

\* s.endswith(suf)
EndsWith(s, suf) ==
    Len(suf) <= Len(s) /\ MatchAt(s, suf, Len(s) - Len(suf) + 1)

\* s.replace(old, new), old not empty: every occurrence, left to right
RECURSIVE Replace(_, _, _)
Replace(s, old, new) ==
    IF s = <<>> THEN <<>>
    ELSE IF MatchAt(s, old, 1)
         THEN new \o Replace(SubSeq(s, Len(old) + 1, Len(s)), old, new)
         ELSE <<s[1]>> \o Replace(Tail(s), old, new)

\* s.lower(), on ASCII
Lower(s) == [i \in 1..Len(s) |-> IF s[i] \in 65..90 THEN s[i] + 32 ELSE s[i]]

\* s.split("-")[0]: the part before the first '-', the whole of s when it has none
SplitFirst(s) ==
    IF Contains(s, HYPHEN) THEN SubSeq(s, 1, Find(s, HYPHEN) - 1) ELSE s

\* s < t on Python strings: lexicographic on the character codes
StrLess(s, t) ==
    \E k \in 1..Len(t) :
        /\ k <= Len(s) + 1
        /\ \A j \in 1..(k - 1) : s[j] = t[j]
        /\ (k = Len(s) + 1 \/ s[k] < t[k])

\* (name, url) < (name2, url2) on Python tuples
PairLess(a, b) == StrLess(a[1], b[1]) \/ (a[1] = b[1] /\ StrLess(a[2], b[2]))

\* os.path.join(a, b)
PathJoin(a, b) ==
    IF b # <<>> /\ b[1] = SLASH[1] THEN b
    ELSE IF a = <<>> \/ a[Len(a)] = SLASH[1] THEN a \o b
    ELSE a \o SLASH \o b

\* the directories os.makedirs(path, exist_ok=True) leaves in place: path
\* itself (without a trailing '/') and each of its parents
MakeDirs(path) ==
    { SubSeq(path, 1, i - 1) : i \in { j \in 2..Len(path) : path[j] = SLASH[1] } }
        \cup (IF path # <<>> /\ path[Len(path)] # SLASH[1] THEN {path} ELSE {})

\* sorted(wheels_info): insertion of one (name, url) pair into a sorted list
RECURSIVE InsertWheel(_, _)
InsertWheel(x, seq) ==
    IF seq = <<>> THEN <<x>>
    ELSE IF PairLess(x, Head(seq)) THEN <<x>> \o seq
    ELSE <<Head(seq)>> \o InsertWheel(x, Tail(seq))

\* sorted(wheels_info) on a list of (name, url) pairs
RECURSIVE SortedWheels(_)
SortedWheels(seq) ==
    IF seq = <<>> THEN <<>>
    ELSE InsertWheel(seq[Len(seq)], SortedWheels(SubSeq(seq, 1, Len(seq) - 1)))

\* sorted(packages): insertion of one name into a sorted list
RECURSIVE InsertName(_, _)
InsertName(x, seq) ==
    IF seq = <<>> THEN <<x>>
    ELSE IF StrLess(x, Head(seq)) THEN <<x>> \o seq
    ELSE <<Head(seq)>> \o InsertName(x, Tail(seq))

\* sorted(packages) on a list of package names
RECURSIVE SortedNames(_)
SortedNames(seq) ==
    IF seq = <<>> THEN <<>>
    ELSE InsertName(seq[Len(seq)], SortedNames(SubSeq(seq, 1, Len(seq) - 1)))

(***************************************************************************)
(* The release the listing endpoint describes: asset records with a "name" *)
(* and a "browser_download_url".  An absent or empty field is <<>> (both   *)
(* are falsy at lines 72-76).  Asset names are unique within a release.    *)
(***************************************************************************)
\* 'x/': every download URL of the pool is this prefix followed by the name
URL_PREFIX == <<120,47>>
\* '#sha256=ab'
URL_DIGEST == <<35,115,104,97,50,53,54,61,97,98>>

AssetPool ==
    { \* 'A_B-1.whl'
      [name |-> <<65,95,66,45,49,46,119,104,108>>,
       url  |-> URL_PREFIX \o <<65,95,66,45,49,46,119,104,108>>],
      \* 'a-b-2.whl'
      [name |-> <<97,45,98,45,50,46,119,104,108>>,
       url  |-> URL_PREFIX \o <<97,45,98,45,50,46,119,104,108>>],
      \* 'a_b-2.whl'
      [name |-> <<97,95,98,45,50,46,119,104,108>>,
       url  |-> URL_PREFIX \o <<97,95,98,45,50,46,119,104,108>>],
      \* 'ab.whl': no '-' in the name
      [name |-> <<97,98,46,119,104,108>>,
       url  |-> URL_PREFIX \o <<97,98,46,119,104,108>>],
      \* '-1.whl': nothing before the first '-'
      [name |-> <<45,49,46,119,104,108>>,
       url  |-> URL_PREFIX \o <<45,49,46,119,104,108>>],
      \* 'pydantic-1-linux_aarch64.whl', its URL carrying a digest fragment
      [name |-> PYDANTIC \o <<45,49,45>> \o LINUX_TAG \o WHL_SUFFIX,
       url  |-> URL_PREFIX \o PYDANTIC \o <<45,49,45>> \o LINUX_TAG \o WHL_SUFFIX
                    \o URL_DIGEST],
      \* 'pydantic-2-py3.whl'
      [name |-> PYDANTIC \o <<45,50,45,112,121,51,46,119,104,108>>,
       url  |-> URL_PREFIX \o PYDANTIC \o <<45,50,45,112,121,51,46,119,104,108>>],
      \* 'notes.txt': not a wheel
      [name |-> <<110,111,116,101,115,46,116,120,116>>,
       url  |-> URL_PREFIX \o <<110,111,116,101,115,46,116,120,116>>] }

\* the releases of at most MaxAssets assets, in any order, names unique
Releases ==
    { r \in UNION { [1..n -> AssetPool] : n \in 0..MaxAssets } :
        \A i, j \in DOMAIN r : i # j => r[i].name # r[j].name }

\* what the GET of the listing can come to (lines 53-67)
ListingKinds ==
    {"ok", "connection_error", "timeout", "http_error", "invalid_json", "no_assets"}

\* the response of kind k for release r
Response(k, r) ==
    [error    |-> IF k \in {"connection_error", "timeout"} THEN k ELSE "none",
     status   |-> IF k = "http_error" THEN 500 ELSE 200,
     json     |-> k # "invalid_json",
     hasAssets |-> k # "no_assets",
     assets   |-> r]

(***************************************************************************)
(* get_wheel_infos                                                         *)
(***************************************************************************)
\* line 72 without the test of the suffix
KeepAssetAnyName(a) == a.name # <<>> /\ a.url # <<>>

\* line 72: the asset is kept
KeepAsset(a) == a.name # <<>> /\ a.url # <<>> /\ EndsWith(a.name, WHL_SUFFIX)

\* lines 69-77: the (name, url) pairs of the kept assets, in listing order
RECURSIVE CollectWheels(_)
CollectWheels(assets) ==
    IF assets = <<>> THEN <<>>
    ELSE (IF KeepAsset(Head(assets))
          THEN << <<Head(assets).name, Head(assets).url>> >>
          ELSE <<>>) \o CollectWheels(Tail(assets))

\* lines 49-80
GetWheelInfos(resp) ==
    IF resp.error # "none" \/ resp.status >= 400 THEN <<>>
    ELSE IF ~resp.json THEN <<>>
    ELSE IF ~resp.hasAssets THEN <<>>
    ELSE CollectWheels(resp.assets)

(***************************************************************************)
(* get_packages_dict                                                       *)
(***************************************************************************)
\* lines 86-87 without lower()
PackageNameCased(wheel_name) == Replace(SplitFirst(wheel_name), UNDERSCORE, HYPHEN)

\* lines 86-87
PackageName(wheel_name) == Lower(Replace(SplitFirst(wheel_name), UNDERSCORE, HYPHEN))

\* line 88: res[package_name].append(wheel_info); a dict keeps insertion order
AppendWheel(res, package_name, wheel_info) ==
    IF \E i \in DOMAIN res : res[i].name = package_name
    THEN [i \in DOMAIN res |->
            IF res[i].name = package_name
            THEN [res[i] EXCEPT !.wheels = Append(@, wheel_info)]
            ELSE res[i]]
    ELSE Append(res, [name |-> package_name, wheels |-> <<wheel_info>>])

\* lines 84-90, res being the dict built so far
RECURSIVE GroupWheels(_, _)
GroupWheels(wheel_infos, res) ==
    IF wheel_infos = <<>> THEN res
    ELSE GroupWheels(Tail(wheel_infos),
                     AppendWheel(res, PackageName(Head(wheel_infos)[1]), Head(wheel_infos)))

\* lines 82-92
GetPackagesDict(wheel_infos) == GroupWheels(wheel_infos, <<>>)

(***************************************************************************)
(* generate_packages_index: paths and the link of one wheel                *)
(***************************************************************************)
\* line 108
PackageDir(package_name) == PathJoin(DOCS_DIR, Lower(package_name))
\* line 115
IndexPath(package_name) == PathJoin(PackageDir(package_name), INDEX_HTML)
\* line 187
MainIndexPath == PathJoin(DOCS_DIR, INDEX_HTML)

\* line 140 with 'or' for 'and'
NeedsLocalCopyEither(wheel_name) ==
    Contains(wheel_name, LINUX_TAG) \/ Contains(wheel_name, PYDANTIC)

\* line 140
NeedsLocalCopy(wheel_name) ==
    Contains(wheel_name, LINUX_TAG) /\ Contains(wheel_name, PYDANTIC)

\* lines 135, 142
DisplayName(wheel_name) ==
    IF NeedsLocalCopy(wheel_name)
    THEN Replace(wheel_name, LINUX_TAG, ANDROID_TAG)
    ELSE wheel_name

\* line 144
LocalWheelPath(wheel_name) == PathJoin(DOCS_DIR, DisplayName(wheel_name))

\* line 147 without the test of the local file
MustDownloadAlways(path, present) == TRUE

\* line 147: the download is made
MustDownload(path, present) == path \notin present

\* lines 136, 155
LinkUrl(wheel_name, wheel_url) ==
    IF NeedsLocalCopy(wheel_name)
    THEN PARENT_PREFIX \o DisplayName(wheel_name)
    ELSE wheel_url

\* lines 159-161
HashPart(wheel_url) ==
    IF Contains(wheel_url, SHA_MARK)
    THEN HASH_ATTRS \o SubSeq(wheel_url, Find(wheel_url, HASH_CHAR), Len(wheel_url))
    ELSE <<>>

\* line 164: the anchor written for one wheel
Anchor(wheel_name, wheel_url) ==
    [href  |-> LinkUrl(wheel_name, wheel_url),
     attrs |-> HashPart(wheel_url),
     text  |-> DisplayName(wheel_name)]

(***************************************************************************)
(* generate_main_pages: the anchors of the main page                       *)
(***************************************************************************)
\* line 213 without sorted()
MainOrderAsGiven(packages) == packages

\* line 213
MainOrder(packages) == SortedNames(packages)

\* lines 214-216
MainAnchor(package_name) ==
    [href  |-> Replace(Lower(package_name), UNDERSCORE, HYPHEN) \o SLASH,
     attrs |-> <<>>,
     text  |-> Replace(Lower(package_name), UNDERSCORE, HYPHEN)]

\* lines 213-216
MainLinks(packages) ==
    [i \in 1..Len(packages) |-> MainAnchor(MainOrder(packages)[i])]

(***************************************************************************)
(* download_file                                                           *)
(***************************************************************************)
\* How one call can go.  fail: "none"; "timeout" and "request" (lines 24-25,
\* before the destination is opened); "io" (makedirs or open raising, lines
\* 22, 26); "copy" (any exception once the destination has been opened for
\* writing, line 27).  rm: whether os.remove at line 42 succeeds.
DownloadOutcomes == [fail : {"none", "timeout", "request", "io", "copy"}, rm : BOOLEAN]

\* lines 17-46: the return value
DownloadOk(o) == o.fail = "none"

\* line 40: os.path.exists(destination) after a failed attempt
RemoveAttempted(present, destination, o) ==
    o.fail # "none" /\ (destination \in present \/ o.fail = "copy")

\* the failing environment calls of one outcome
FaultsOf(present, destination, o) ==
    (IF o.fail = "none" THEN 0 ELSE 1)
        + (IF RemoveAttempted(present, destination, o) /\ ~o.rm THEN 1 ELSE 0)

\* the content of a wheel file; complete: every byte of the download arrived
WheelFile(complete) ==
    [kind |-> "wheel", complete |-> complete, title |-> <<>>, links |-> <<>>]

\* lines 26-27: the files once the attempt has returned or raised
AfterTransfer(fs, destination, o) ==
    IF o.fail \in {"none", "copy"}
    THEN (destination :> WheelFile(o.fail = "none")) @@ fs
    ELSE fs

\* lines 39-45: the clean-up of a failed attempt
AfterCleanup(fs, destination, o) ==
    IF o.fail # "none" /\ destination \in DOMAIN fs /\ o.rm
    THEN [q \in DOMAIN fs \ {destination} |-> fs[q]]
    ELSE fs

\* lines 17-46: the files after download_file(url, destination)
DownloadFile(fs, destination, o) ==
    AfterCleanup(AfterTransfer(fs, destination, o), destination, o)

(***************************************************************************)
(* State                                                                   *)
(***************************************************************************)
VARIABLES
    release,        \* the assets of the latest release, as the endpoint lists them
    dirs,           \* the directories of the output tree
    files,          \* the files of the output tree: path -> content
    faults,         \* failing environment calls so far
    linked,         \* (name, url) of a mirrored wheel -> the first and the latest anchor written for it
    pc,             \* the position of main()
    listing,        \* how the GET of the listing went in this run
    wheel_infos,    \* main: wheel_infos
    packages_dict,  \* main: packages_dict, in insertion order
    pkg,            \* generate_packages_index: index of the package of the outer loop
    wheels,         \* generate_packages_index: sorted(wheels_info) of that package
    whl,            \* generate_packages_index: index of the wheel of the inner loop
    generated,      \* the packages counted by generated_count, in order
    skipped,        \* the wheels counted by skipped_due_download_error
    downloads,      \* the destinations download_file was called with in this run
    diag,           \* the lines of the error reports of this run (100, 112, 172, 184, 223)
    mainWritten     \* line 221 was reached in this run

vars == <<release, dirs, files, faults, linked, pc, listing, wheel_infos,
          packages_dict, pkg, wheels, whl, generated, skipped, downloads,
          diag, mainWritten>>

\* main() starts on an empty working directory; a later run starts on the
\* tree the run before it left (RunAgain)
Init ==
    /\ release \in Releases
    /\ dirs = {}
    /\ files = <<>>
    /\ faults = 0
    /\ linked = <<>>
    /\ pc = "start"
    /\ listing = "none"
    /\ wheel_infos = <<>>
    /\ packages_dict = <<>>
    /\ pkg = 0
    /\ wheels = <<>>
    /\ whl = 0
    /\ generated = <<>>
    /\ skipped = {}
    /\ downloads = <<>>
    /\ diag = {}
    /\ mainWritten = FALSE

\* an operation that may fail: ok is its result, within the fault bound
MayFail(ok) == ok \/ faults < MaxFaults

\* the position after the package of index i is finished or given up (lines 107, 236)
AfterPackage(i) == IF i < Len(packages_dict) THEN "package" ELSE "main_root"

(***************************************************************************)
(* main, lines 227-230: get_wheel_infos and the test of its result         *)
(***************************************************************************)
ListWheels ==
    /\ pc = "start"
    /\ \E k \in ListingKinds :
        /\ listing' = k
        /\ wheel_infos' = GetWheelInfos(Response(k, release))
    /\ pc' = IF wheel_infos' = <<>> THEN "done" ELSE "group"
    /\ UNCHANGED <<release, dirs, files, faults, linked, packages_dict, pkg,
                   wheels, whl, generated, skipped, downloads, diag, mainWritten>>

(***************************************************************************)
(* main, lines 231-234: get_packages_dict and the test of its result       *)
(***************************************************************************)
GroupPackages ==
    /\ pc = "group"
    /\ packages_dict' = GetPackagesDict(wheel_infos)
    /\ pc' = IF packages_dict' = <<>> THEN "done" ELSE "root"
    /\ UNCHANGED <<release, dirs, files, faults, linked, listing, wheel_infos,
                   pkg, wheels, whl, generated, skipped, downloads, diag,
                   mainWritten>>

(***************************************************************************)
(* generate_packages_index, lines 95-105: the base directory               *)
(***************************************************************************)
MakeRoot ==
    /\ pc = "root"
    /\ \E ok \in BOOLEAN :
        /\ MayFail(ok)
        /\ IF ok
           THEN /\ dirs' = dirs \cup MakeDirs(DOCS_DIR)
                /\ pc' = "package"
                /\ pkg' = 1
                /\ UNCHANGED <<faults, diag>>
           ELSE /\ diag' = diag \cup {100}
                /\ faults' = faults + 1
                /\ pc' = "main_root"
                /\ UNCHANGED <<dirs, pkg>>
    /\ UNCHANGED <<release, files, linked, listing, wheel_infos, packages_dict,
                   wheels, whl, generated, skipped, downloads, mainWritten>>

(***************************************************************************)
(* generate_packages_index, lines 107-113: the directory of one package    *)
(***************************************************************************)
MakePackageDir ==
    /\ pc = "package"
    /\ \E ok \in BOOLEAN :
        /\ MayFail(ok)
        /\ IF ok
           THEN /\ dirs' = dirs \cup MakeDirs(PackageDir(packages_dict[pkg].name))
                /\ pc' = "open"
                /\ UNCHANGED <<faults, pkg, diag>>
           ELSE /\ faults' = faults + 1
                /\ diag' = diag \cup {112}
                /\ pc' = AfterPackage(pkg)
                /\ pkg' = pkg + 1
                /\ UNCHANGED dirs
    /\ UNCHANGED <<release, files, linked, listing, wheel_infos, packages_dict,
                   wheels, whl, generated, skipped, downloads, mainWritten>>

(***************************************************************************)
(* generate_packages_index, lines 115-134: open the page, write its head   *)
(***************************************************************************)
\* lines 117-132: the page once opened for writing, its head written
NewPage(package_name) ==
    [kind |-> "package", complete |-> FALSE, title |-> Lower(package_name),
     links |-> <<>>]

\* line 117 alone: the file open(path, 'w') has created or truncated, nothing
\* of the page in it
EmptyFile(kind) ==
    [kind |-> kind, complete |-> FALSE, title |-> <<>>, links |-> <<>>]

\* What a page can be on disk once a write, or the flush at the end of the
\* with block, has raised (lines 172, 223).  The writes go through a buffer:
\* of the head and the anchors written so far, page, the file holds nothing,
\* or the head and the first k anchors; the foot is in no such file.
LeftOnDisk(page) ==
    {EmptyFile(page.kind)}
        \cup { [page EXCEPT !.complete = FALSE, !.links = SubSeq(page.links, 1, k)] :
                  k \in 0..Len(page.links) }

\* What a page can be on disk once the writing of its foot or the close at
\* the end of the with block has raised, page being the head and the anchors
\* written: what LeftOnDisk allows, or, close() raising after the flush, the
\* whole page with its foot.
LeftAtClose(page) == LeftOnDisk(page) \cup {[page EXCEPT !.complete = TRUE]}

\* how the opening of a page and the writing of its head can go: "ok";
\* "open" (open(path, 'w') raises, the file is as it was); "write" (the
\* file was created or truncated by open and the write of the head raises:
\* nothing of the page is in the file)
PageOutcomes == {"ok", "open", "write"}

OpenPage ==
    /\ pc = "open"
    /\ \E o \in PageOutcomes :
        /\ MayFail(o = "ok")
        /\ files' = IF o = "open" THEN files
                    ELSE IF o = "write"
                         THEN (IndexPath(packages_dict[pkg].name) :>
                                 EmptyFile("package")) @@ files
                         ELSE (IndexPath(packages_dict[pkg].name) :>
                                 NewPage(packages_dict[pkg].name)) @@ files
        /\ IF o = "ok"
           THEN /\ wheels' = SortedWheels(packages_dict[pkg].wheels)
                /\ whl' = 1
                /\ pc' = "link"
                /\ UNCHANGED <<faults, pkg, diag>>
           ELSE /\ faults' = faults + 1
                /\ diag' = diag \cup {172}
                /\ pc' = AfterPackage(pkg)
                /\ pkg' = pkg + 1
                /\ UNCHANGED <<wheels, whl>>
    /\ UNCHANGED <<release, dirs, linked, listing, wheel_infos, packages_dict,
                   generated, skipped, downloads, mainWritten>>

(***************************************************************************)
(* generate_packages_index, lines 134-164: one turn of the inner loop      *)
(***************************************************************************)
\* lines 134, 166: the position after the wheel of index i of n has its anchor
AfterAnchor(i, n) == IF i < n THEN "link" ELSE "close"

\* line 151 with 'break' for 'continue'
AfterSkipBreak(i, n) == "close"

\* lines 151, 134, 166: the position after the wheel of index i of n is skipped
AfterSkip(i, n) == IF i < n THEN "link" ELSE "close"

\* the first and the latest anchor written for the mirrored wheel w
Relinked(w, anchor) ==
    IF w \in DOMAIN linked
    THEN [linked EXCEPT ![w] = <<@[1], anchor>>]
    ELSE (w :> <<anchor>>) @@ linked

\* line 164 for the wheel of this turn, on the files fs; ok: the write
\* succeeds.  When it raises, the with block closes the page and the file is
\* left with what reached the disk of the head and the anchors before it.
WriteAnchor(fs, ok) ==
    LET w == wheels[whl]
        page == IndexPath(packages_dict[pkg].name)
    IN  /\ MayFail(ok)
        /\ IF ok
           THEN /\ files' = [fs EXCEPT ![page].links = Append(@, Anchor(w[1], w[2]))]
                /\ linked' = IF NeedsLocalCopy(w[1])
                             THEN Relinked(w, Anchor(w[1], w[2]))
                             ELSE linked
                /\ whl' = whl + 1
                /\ pc' = AfterAnchor(whl, Len(wheels))
                /\ UNCHANGED <<faults, pkg, diag>>
           ELSE /\ \E left \in LeftOnDisk(fs[page]) :
                        files' = [fs EXCEPT ![page] = left]
                /\ faults' = faults + 1
                /\ diag' = diag \cup {172}
                /\ pc' = AfterPackage(pkg)
                /\ pkg' = pkg + 1
                /\ UNCHANGED <<linked, whl>>

\* lines 135-137, 157-164: a wheel that is linked where it is
LinkRemote ==
    /\ pc = "link"
    /\ ~NeedsLocalCopy(wheels[whl][1])
    /\ \E ok \in BOOLEAN : WriteAnchor(files, ok)
    /\ UNCHANGED <<release, dirs, listing, wheel_infos, packages_dict, wheels,
                   generated, skipped, downloads, mainWritten>>

\* lines 140-147, 153-164: a wheel whose local copy is already there
LinkMirrored ==
    /\ pc = "link"
    /\ NeedsLocalCopy(wheels[whl][1])
    /\ ~MustDownload(LocalWheelPath(wheels[whl][1]), DOMAIN files)
    /\ \E ok \in BOOLEAN : WriteAnchor(files, ok)
    /\ UNCHANGED <<release, dirs, listing, wheel_infos, packages_dict, wheels,
                   generated, skipped, downloads, mainWritten>>

\* lines 140-164: a wheel that is downloaded first
LinkDownloaded ==
    /\ pc = "link"
    /\ NeedsLocalCopy(wheels[whl][1])
    /\ MustDownload(LocalWheelPath(wheels[whl][1]), DOMAIN files)
    /\ \E o \in DownloadOutcomes, ok \in BOOLEAN :
        LET w == wheels[whl]
            dest == LocalWheelPath(w[1])
            cost == FaultsOf(DOMAIN files, dest, o)
            fs == DownloadFile(files, dest, o)
        IN  /\ MayFail(DownloadOk(o))
            /\ RemoveAttempted(DOMAIN files, dest, o) \/ o.rm
            /\ downloads' = Append(downloads, [dest |-> dest, ok |-> DownloadOk(o)])
            /\ IF DownloadOk(o)
               THEN /\ WriteAnchor(fs, ok)
                    /\ UNCHANGED skipped
               ELSE /\ ok
                    /\ files' = fs
                    /\ faults' = faults + cost
                    /\ skipped' = skipped \cup {w}
                    /\ whl' = whl + 1
                    /\ pc' = AfterSkip(whl, Len(wheels))
                    /\ UNCHANGED <<linked, pkg, diag>>
    /\ UNCHANGED <<release, dirs, listing, wheel_infos, packages_dict, wheels,
                   generated, mainWritten>>

(***************************************************************************)
(* generate_packages_index, lines 166-172: the foot of the page and the    *)
(* close of the file; on a failure the file is left with what reached the  *)
(* disk, the whole page when close() raises after the flush, and the page  *)
(* is not counted                                                          *)
(***************************************************************************)
ClosePage ==
    /\ pc = "close"
    /\ \E ok \in BOOLEAN :
        /\ MayFail(ok)
        /\ LET page == IndexPath(packages_dict[pkg].name)
           IN IF ok
              THEN /\ files' = [files EXCEPT ![page].complete = TRUE]
                   /\ generated' = Append(generated,
                                          [name |-> packages_dict[pkg].name,
                                           links |-> files[page].links])
                   /\ UNCHANGED <<faults, diag>>
              ELSE /\ \E left \in LeftAtClose(files[page]) :
                           files' = [files EXCEPT ![page] = left]
                   /\ faults' = faults + 1
                   /\ diag' = diag \cup {172}
                   /\ UNCHANGED generated
    /\ pc' = AfterPackage(pkg)
    /\ pkg' = pkg + 1
    /\ UNCHANGED <<release, dirs, linked, listing, wheel_infos, packages_dict,
                   wheels, whl, skipped, downloads, mainWritten>>

(***************************************************************************)
(* generate_main_pages, lines 181-185: the base directory again            *)
(***************************************************************************)
MakeRootAgain ==
    /\ pc = "main_root"
    /\ \E ok \in BOOLEAN :
        /\ MayFail(ok)
        /\ IF ok
           THEN /\ dirs' = dirs \cup MakeDirs(DOCS_DIR)
                /\ pc' = "main_page"
                /\ UNCHANGED <<faults, diag>>
           ELSE /\ faults' = faults + 1
                /\ diag' = diag \cup {184}
                /\ pc' = "done"
                /\ UNCHANGED dirs
    /\ UNCHANGED <<release, files, linked, listing, wheel_infos, packages_dict,
                   pkg, wheels, whl, generated, skipped, downloads, mainWritten>>

(***************************************************************************)
(* generate_main_pages, lines 187-223: the main page                       *)
(***************************************************************************)
\* main, line 236: packages_dict.keys()
PackageKeys == [i \in 1..Len(packages_dict) |-> packages_dict[i].name]

\* lines 190-220: the main page as written
MainPage(packages) ==
    [kind |-> "main", complete |-> TRUE, title |-> <<>>, links |-> MainLinks(packages)]

\* "write": the file was created or truncated by open and a write of the
\* head, of an anchor or of the foot, or the close, raises; the file is
\* left with what reached the disk before, the whole page when close()
\* raises after the flush, and line 221 is not reached
WriteMainPage ==
    /\ pc = "main_page"
    /\ \E o \in PageOutcomes :
        /\ MayFail(o = "ok")
        /\ IF o = "open" THEN files' = files
           ELSE IF o = "write"
                THEN \E left \in LeftAtClose(MainPage(PackageKeys)) :
                        files' = (MainIndexPath :> left) @@ files
                ELSE files' = (MainIndexPath :> MainPage(PackageKeys)) @@ files
        /\ IF o = "ok"
           THEN /\ mainWritten' = TRUE
                /\ UNCHANGED <<faults, diag>>
           ELSE /\ faults' = faults + 1
                /\ diag' = diag \cup {223}
                /\ UNCHANGED mainWritten
    /\ pc' = "done"
    /\ UNCHANGED <<release, dirs, linked, listing, wheel_infos, packages_dict,
                   pkg, wheels, whl, generated, skipped, downloads>>

(***************************************************************************)
(* The script is run again on the tree the last run left.                  *)
(***************************************************************************)
RunAgain ==
    /\ pc = "done"
    /\ pc' = "start"
    /\ listing' = "none"
    /\ wheel_infos' = <<>>
    /\ packages_dict' = <<>>
    /\ pkg' = 0
    /\ wheels' = <<>>
    /\ whl' = 0
    /\ generated' = <<>>
    /\ skipped' = {}
    /\ downloads' = <<>>
    /\ diag' = {}
    /\ mainWritten' = FALSE
    /\ UNCHANGED <<release, dirs, files, faults, linked>>

Next ==
    \/ ListWheels
    \/ GroupPackages
    \/ MakeRoot
    \/ MakePackageDir
    \/ OpenPage
    \/ LinkRemote
    \/ LinkMirrored
    \/ LinkDownloaded
    \/ ClosePage
    \/ MakeRootAgain
    \/ WriteMainPage
    \/ RunAgain

Spec == Init /\ [][Next]_vars

(***************************************************************************)
(* Properties                                                              *)
(***************************************************************************)
\* the elements of a sequence
Range(seq) == { seq[i] : i \in DOMAIN seq }

\* the wheel files of a tree
WheelFiles(fs) == { q \in DOMAIN fs : fs[q].kind = "wheel" }

\* the wheel name carries both marks of a wheel that is mirrored
BothMarks(wheel_name) ==
    Contains(wheel_name, LINUX_TAG) /\ Contains(wheel_name, PYDANTIC)

\* where the mirrored copy of the wheel goes
MirrorPath(wheel_name) ==
    PathJoin(DOCS_DIR, Replace(wheel_name, LINUX_TAG, ANDROID_TAG))

\* the release lists no artifact: no asset has a name ending in '.whl' and a URL
NoArtifactListed ==
    \A i \in DOMAIN release :
        release[i].url = <<>> \/ ~EndsWith(release[i].name, WHL_SUFFIX)

\* the listing step failed or yielded no artifact
ListingYieldsNothing(k) == k # "ok" \/ NoArtifactListed

\* C1: when the listing step fails (connection error, timeout, HTTP error
\* status, body that is not JSON, JSON without 'assets') or yields no
\* artifact, the run ends at once: no directory is created, no file is
\* written, no download is attempted, no package page and no main page is
\* written.
C1_FailedListingWritesNothing ==
    /\ []((pc # "start" /\ ListingYieldsNothing(listing)) =>
            (pc = "done" /\ downloads = <<>> /\ generated = <<>> /\ ~mainWritten))
    /\ [][(pc = "start" /\ ListingYieldsNothing(listing')) =>
            (pc' = "done" /\ dirs' = dirs /\ files' = files)]_vars

\* C1 witness: a run ended on an HTTP error although the release lists an
\* artifact, and the tree is still empty
C1_Witness ==
    /\ pc = "done"
    /\ listing = "http_error"
    /\ ~NoArtifactListed
    /\ dirs = {}
    /\ files = <<>>

\* the anchors of the wheels ws, those of skip left out
RECURSIVE AnchorsExcept(_, _)
AnchorsExcept(ws, skip) ==
    IF ws = <<>> THEN <<>>
    ELSE (IF Head(ws) \in skip THEN <<>> ELSE <<Anchor(Head(ws)[1], Head(ws)[2])>>)
            \o AnchorsExcept(Tail(ws), skip)

\* the destinations whose download failed in this run
FailedDownloads ==
    { downloads[i].dest : i \in { j \in DOMAIN downloads : ~downloads[j].ok } }

\* C2: a failed download of a wheel that is mirrored costs that wheel's
\* link and nothing else: in a run with no other error, the wheels left
\* out are exactly those whose download failed, every package page is
\* written with the links of all its other wheels in sorted order, and the
\* main page is written.
C2_FailedDownloadOmitsOneLink ==
    (pc = "done" /\ listing = "ok" /\ packages_dict # <<>> /\ diag = {}) =>
        /\ mainWritten
        /\ skipped = { w \in Range(wheel_infos) :
                         BothMarks(w[1]) /\ MirrorPath(w[1]) \in FailedDownloads }
        /\ Len(generated) = Len(packages_dict)
        /\ \A i \in DOMAIN packages_dict :
            /\ generated[i].name = packages_dict[i].name
            /\ generated[i].links =
                   AnchorsExcept(SortedWheels(packages_dict[i].wheels), skipped)

\* C2 witness: a finished run without other errors in which one download
\* failed, the page of the same package still has a link and the main page
\* is written
C2_Witness ==
    /\ pc = "done"
    /\ diag = {}
    /\ mainWritten
    /\ Cardinality(skipped) = 1
    /\ \E w \in skipped : \E i \in DOMAIN generated :
        /\ generated[i].name = PackageName(w[1])
        /\ generated[i].links # <<>>

\* C3: resolving the link of a mirrored wheel again, its local copy being
\* there, makes no download and writes the anchor of the first resolution:
\* the relabelled name, '../' and that name as href, the same digest
\* attributes.
C3_MirrorIdempotent ==
    /\ [](\A w \in DOMAIN linked :
            /\ \A i \in DOMAIN linked[w] : linked[w][i] = linked[w][1]
            /\ linked[w][1].text = Replace(w[1], LINUX_TAG, ANDROID_TAG)
            /\ linked[w][1].href = PARENT_PREFIX \o linked[w][1].text)
    /\ [][(/\ pc = "link"
           /\ wheels[whl] \in DOMAIN linked
           /\ MirrorPath(wheels[whl][1]) \in DOMAIN files) =>
            LET page == IndexPath(packages_dict[pkg].name)
            IN  /\ downloads' = downloads
                /\ WheelFiles(files') = WheelFiles(files)
                /\ pkg' = pkg =>
                    files'[page].links =
                        Append(files[page].links, linked[wheels[whl]][1])]_vars

\* C3 witness: a run that made no download has written, for the second time,
\* the anchor of a mirrored wheel
C3_Witness ==
    /\ pc = "close"
    /\ downloads = <<>>
    /\ \E w \in DOMAIN linked :
        /\ Len(linked[w]) = 2
        /\ w \in Range(wheels)
        /\ linked[w][2] \in Range(files[IndexPath(packages_dict[pkg].name)].links)

\* a character up to case and to the choice between '_' and '-'
Canon(c) ==
    IF c \in 65..90 THEN c + 32 ELSE IF c = UNDERSCORE[1] THEN HYPHEN[1] ELSE c

\* two strings equal up to case and underscore/hyphen
SameUpToCaseAndHyphen(s, t) ==
    Len(s) = Len(t) /\ \A k \in 1..Len(s) : Canon(s[k]) = Canon(t[k])

\* the wheels a and b are in one package group
InOneGroup(a, b) ==
    \E g \in DOMAIN packages_dict : {a, b} \subseteq Range(packages_dict[g].wheels)

\* the name segment as the example 'a-b-2.0-....whl' reads it: what precedes
\* the first '-' that a digit follows
NameBeforeVersion(s) ==
    LET at == { i \in 1..(Len(s) - 1) : s[i] = HYPHEN[1] /\ s[i + 1] \in 48..57 }
    IN  IF at = {} THEN SplitFirst(s)
        ELSE SubSeq(s, 1, (CHOOSE i \in at : \A j \in at : i <= j) - 1)

\* get_packages_dict has just returned a dict that is not empty; wheel_infos
\* and packages_dict stay as they are until the run ends
Grouped == pc = "root"

\* C4 as claimed: wheels whose name segments, read as in 'A_B-1.0' and
\* 'a-b-2.0', are equal up to case and underscore/hyphen are in one group.
C4_AsClaimed ==
    Grouped =>
        \A a, b \in Range(wheel_infos) :
            SameUpToCaseAndHyphen(NameBeforeVersion(a[1]), NameBeforeVersion(b[1]))
                => InOneGroup(a, b)

\* C4: wheels whose file names are equal before their first '-', up to case
\* and underscore/hyphen, are in one group, and every wheel is in the group
\* named by that part of its name, lower-cased and with '-' for '_'.
C4_GroupedByFirstSegment ==
    Grouped =>
        /\ \A a, b \in Range(wheel_infos) :
            SameUpToCaseAndHyphen(SplitFirst(a[1]), SplitFirst(b[1]))
                => InOneGroup(a, b)
        /\ \A a \in Range(wheel_infos) :
            \E g \in DOMAIN packages_dict :
                /\ a \in Range(packages_dict[g].wheels)
                /\ packages_dict[g].name =
                       [k \in 1..Len(SplitFirst(a[1])) |-> Canon(SplitFirst(a[1])[k])]

\* C4 witness: two wheels whose names differ in case before the first '-'
\* are in one group
C4_Witness ==
    /\ Grouped
    /\ \E a, b \in Range(wheel_infos) :
        /\ SplitFirst(a[1]) # SplitFirst(b[1])
        /\ SameUpToCaseAndHyphen(SplitFirst(a[1]), SplitFirst(b[1]))
        /\ InOneGroup(a, b)

\* C5: the main page, when written, has one link per package name of the
\* grouping, none missing, none twice, none added, in ascending order of
\* the names, each with the name and a '/' as href.
C5_MainPageListsPackages ==
    mainWritten =>
        LET links == files[MainIndexPath].links
        IN  /\ files[MainIndexPath].kind = "main"
            /\ { links[i].text : i \in DOMAIN links } = Range(PackageKeys)
            /\ \A i \in 1..(Len(links) - 1) : StrLess(links[i].text, links[i + 1].text)
            /\ \A i \in DOMAIN links : links[i].href = links[i].text \o SLASH

\* C5 witness: the main page is written for two packages that the grouping
\* met in descending order
C5_Witness ==
    /\ mainWritten
    /\ Len(packages_dict) = 2
    /\ StrLess(packages_dict[2].name, packages_dict[1].name)
    /\ Len(files[MainIndexPath].links) = 2

\* C6: a wheel whose file name has no '-' is put in no package group.
C6_NoHyphenSkipped ==
    \A g \in DOMAIN packages_dict :
        \A a \in Range(packages_dict[g].wheels) : Contains(a[1], HYPHEN)

\* C7: once the creation of the base directory has failed, the run makes no
\* download and writes no package page and no main page.
C7_RootFailureIsFatal ==
    100 \in diag => (downloads = <<>> /\ generated = <<>> /\ ~mainWritten)

\* C8: after a run that wrote the main page and met no error, every package
\* has its directory and, in it, its own page, at a path that is neither
\* another package's nor the main page's.
C8_EveryPackageHasItsPage ==
    (pc = "done" /\ mainWritten /\ diag = {}) =>
        \A i \in DOMAIN packages_dict :
            LET page == IndexPath(packages_dict[i].name)
            IN  /\ page # MainIndexPath
                /\ \A j \in DOMAIN packages_dict :
                    j # i => IndexPath(packages_dict[j].name) # page
                /\ page \in DOMAIN files
                /\ files[page].kind = "package"
                /\ files[page].title = packages_dict[i].name
                /\ files[page].complete

\* C9: the resolution of one link adds at most one wheel file, at the mirror
\* path of its wheel, and only when the wheel name carries both marks and
\* nothing is at that path; for a wheel without both marks no download is
\* made and the anchor has the source URL as href and the file name as
\* text; no other step adds a wheel file, and a wheel file of the tree is
\* never replaced or removed.
C9_ResolutionWritesAtMostOneWheel ==
    [][/\ \A q \in WheelFiles(files) : q \in DOMAIN files' /\ files'[q] = files[q]
       /\ pc # "link" => WheelFiles(files') = WheelFiles(files)
       /\ pc = "link" =>
            LET w == wheels[whl]
                page == IndexPath(packages_dict[pkg].name)
                new == WheelFiles(files') \ WheelFiles(files)
            IN  /\ new \subseteq {MirrorPath(w[1])}
                /\ new # {} => (BothMarks(w[1]) /\ MirrorPath(w[1]) \notin DOMAIN files)
                /\ ~BothMarks(w[1]) =>
                    /\ downloads' = downloads
                    /\ pkg' = pkg =>
                        /\ Len(files'[page].links) = Len(files[page].links) + 1
                        /\ files'[page].links[Len(files'[page].links)].href = w[2]
                        /\ files'[page].links[Len(files'[page].links)].text = w[1]]_vars

\* C9 witness: a page has the anchor of a wheel just mirrored and the anchor
\* of a wheel linked where it is
C9_Witness ==
    /\ pc = "close"
    /\ Len(downloads) = 1
    /\ downloads[1].ok
    /\ downloads[1].dest \in WheelFiles(files)
    /\ \E a, b \in Range(wheels) :
        /\ BothMarks(a[1])
        /\ ~BothMarks(b[1])
        /\ Len(files[IndexPath(packages_dict[pkg].name)].links) = 2
        /\ files[IndexPath(packages_dict[pkg].name)].links[2].href = b[2]

\* C10: after a failed download no file is at its destination.
C10_FailedDownloadLeavesNoFile ==
    \A i \in DOMAIN downloads :
        ~downloads[i].ok => downloads[i].dest \notin DOMAIN files

====
